---- MODULE Spec2Model ----
(***************************************************************************)
(* A state-machine model of the Grishinium node core:                      *)
(*   crypto_token.py   TokenTransaction, TokenLedger                       *)
(*   pos_consensus.py  ProofOfStake                                        *)
(*   blockchain.py     Block, Blockchain                                   *)
(*   network.py        NodeServer.do_POST (/transaction)                   *)
(*                                                                         *)
(* Amounts are counted in whole tokens (10^8 minimal units each): the      *)
(* ledger arithmetic is additions, subtractions and comparisons, so a      *)
(* common factor changes nothing, and every amount the model draws is a    *)
(* whole number of tokens.  time.time() is the variable clock, in ticks.   *)
(* SHA-256 is modelled by a deterministic digest into 0..HashSpace-1 for   *)
(* block hashes and by the hashed content itself for transaction ids.      *)
(***************************************************************************)
EXTENDS Integers, Sequences, FiniteSets, TLC

VARIABLES
    ledger,                 \* a stand-alone TokenLedger (crypto_token.py)
    applied,                \* number of apply_transaction calls made on it
    posted,                 \* number of POST /transaction requests served
    chain,                  \* Blockchain.chain
    pending_transactions,   \* Blockchain.pending_transactions
    token_ledger,           \* Blockchain.token_ledger
    stakes,                 \* ProofOfStake.stakes, in dict insertion order
    validators,             \* ProofOfStake.validators
    clock,                  \* time.time()
    phase,                  \* "off": no node process; "running": a GrishiniumNode
    db,                     \* the committed content of blockchain.db
    conn,                   \* blockchain.db as the open connection sees it
    listener,               \* the HTTP server of NodeNetwork: "open" or "closed"
    nodes,                  \* NodeNetwork.nodes: the registered peers
    node_info,              \* NodeNetwork.node_info: node_id -> last_seen
    message_handlers,       \* NodeServer.message_handlers: type -> handler
    calls,                  \* per thread, the add_block call it is inside of
    last                    \* the last apply_transaction, add_block or
                            \* calculate_block_reward call and what it
                            \* returned, "none" after any other call

vars == <<ledger, applied, posted, chain, pending_transactions, token_ledger,
          stakes, validators, clock, phase, db, conn, listener,
          nodes, node_info, message_handlers, calls, last>>

nodeVars == <<phase, db, conn, listener>>

netVars == <<nodes, node_info, message_handlers>>

otherVars == <<netVars, calls>>

chainVarsButNet == <<posted, chain, pending_transactions, token_ledger,
                     stakes, validators, clock, phase, db, conn, listener, calls>>

chainVars == <<posted, chain, pending_transactions, token_ledger,
               stakes, validators, clock, phase, db, conn, listener,
               nodes, node_info, message_handlers, calls>>

----------------------------------------------------------------------------
(* Bounds of the model *)

MaxOps == 4         \* apply_transaction calls on the stand-alone ledger
MaxChain == 3       \* blocks in the chain, genesis included
MaxPosts == 2       \* POST /transaction requests served
MaxTime == 2        \* ticks of the clock
HashSpace == 1009   \* size of the digest space

(* Program constants, in whole tokens *)

TOKEN_DECIMALS == 8
TOKEN_MAX_SUPPLY == 1000000000
BLOCK_REWARD_START == 50
BLOCK_REWARD_HALVING_BLOCKS == 210000
MIN_STAKE_AMOUNT == 100
STAKE_LOCK_TIME == 604800
VALIDATOR_SET_SIZE == 100

----------------------------------------------------------------------------
(* Addresses *)

Addr == {"genesis_wallet", "alice", "bob"}
AllAddr == Addr \cup {"system", "staking_pool"}

AddrCode(a) ==
    CASE a = "system" -> 1
      [] a = "staking_pool" -> 2
      [] a = "genesis_wallet" -> 3
      [] a = "alice" -> 4
      [] a = "bob" -> 5
      [] OTHER -> 6

TypeCode(t) ==
    CASE t = "transfer" -> 1
      [] t = "stake" -> 2
      [] t = "unstake" -> 3
      [] t = "reward" -> 4
      [] t = "genesis" -> 5
      [] OTHER -> 6

----------------------------------------------------------------------------
(* TokenTransaction *)

\* The hashed content of a transaction stands for its SHA-256.
generate_tx_id(tx_type, sender, recipient, amount, fee, timestamp) ==
    <<tx_type, sender, recipient, amount, fee, timestamp>>

NoSignature == <<>>

\* The signature the holder of `signer`'s key produces over the signed fields.
sign(signer, tx_type, sender, recipient, amount, fee, timestamp) ==
    <<signer, <<tx_type, sender, recipient, amount, fee, timestamp>>>>

TokenTransaction(tx_type, sender, recipient, amount, fee, timestamp, signature) ==
    [tx_id |-> generate_tx_id(tx_type, sender, recipient, amount, fee, timestamp),
     tx_type |-> tx_type, sender |-> sender, recipient |-> recipient,
     amount |-> amount, fee |-> fee, timestamp |-> timestamp,
     signature |-> signature]

IsTokenTx(tx) == "tx_type" \in DOMAIN tx

verify_signature(tx) ==
    IF tx.tx_type = "genesis" \/ tx.sender = "system" THEN TRUE
    ELSE IF tx.signature = NoSignature THEN FALSE
    ELSE tx.signature = sign(tx.sender, tx.tx_type, tx.sender, tx.recipient,
                             tx.amount, tx.fee, tx.timestamp)

----------------------------------------------------------------------------
(* TokenLedger *)

EmptyLedger ==
    [balances |-> [a \in AllAddr |-> 0],
     staked_amounts |-> [a \in AllAddr |-> 0],
     transaction_history |-> [a \in AllAddr |-> <<>>],
     total_supply |-> 0]

\* Lines 263-272: the history of the sender, then of the recipient.
UpdateHistory(h, tx) ==
    LET h1 == IF tx.sender # "system"
              THEN [h EXCEPT ![tx.sender] = Append(@, tx.tx_id)] ELSE h
    IN  IF tx.recipient # "system"
        THEN [h1 EXCEPT ![tx.recipient] = Append(@, tx.tx_id)] ELSE h1

\* A rejection that has already written the history of the transaction.
Rejected_logged(L, tx) ==
    [ok |-> FALSE,
     ledger |-> [L EXCEPT !.transaction_history = UpdateHistory(@, tx)]]

\* return False, before anything is written
Rejected(L, tx) == [ok |-> FALSE, ledger |-> L]

Accepted(L, tx, b, s, t) ==
    [ok |-> TRUE,
     ledger |-> [balances |-> b, staked_amounts |-> s, total_supply |-> t,
                 transaction_history |-> UpdateHistory(L.transaction_history, tx)]]

apply_transaction(L, tx) ==
    LET b == L.balances
        s == L.staked_amounts
        t == L.total_supply
        sender == tx.sender
        recipient == tx.recipient
        amount == tx.amount
        fee == tx.fee
    IN  CASE tx.tx_type = "genesis" ->
               Accepted(L, tx, [b EXCEPT ![recipient] = @ + amount], s, t + amount)
          [] tx.tx_type = "transfer" ->
               IF b[sender] < amount + fee THEN Rejected(L, tx)
               ELSE LET b1 == [b EXCEPT ![sender] = b[sender] - amount - fee]
                    IN  Accepted(L, tx, [b1 EXCEPT ![recipient] = @ + amount], s, t)
          [] tx.tx_type = "stake" ->
               IF b[sender] < amount + fee THEN Rejected(L, tx)
               ELSE Accepted(L, tx, [b EXCEPT ![sender] = b[sender] - amount - fee],
                             [s EXCEPT ![sender] = @ + amount], t)
          [] tx.tx_type = "unstake" ->
               IF b[sender] < fee \/ s[sender] < amount THEN Rejected(L, tx)
               ELSE Accepted(L, tx, [b EXCEPT ![sender] = b[sender] - fee + amount],
                             [s EXCEPT ![sender] = s[sender] - amount], t)
          [] tx.tx_type = "reward" ->
               Accepted(L, tx, [b EXCEPT ![recipient] = @ + amount], s, t + amount)
          [] tx.tx_type = "fee" ->
               Accepted(L, tx, [b EXCEPT ![recipient] = @ + amount], s, t)
          [] OTHER -> Accepted(L, tx, b, s, t)

get_balance(L, address) == L.balances[address]

get_staked_amount(L, address) == L.staked_amounts[address]

\* An amount that is not a whole number of tokens is the pair <<t, u>>, for
\* t * 10^TOKEN_DECIMALS + u minimal units with 0 <= u < 10^TOKEN_DECIMALS.
TokenUnit == 10 ^ TOKEN_DECIMALS

\* x // 2
halve(x) == <<x[1] \div 2, ((x[1] % 2) * TokenUnit + x[2]) \div 2>>

\* x // (2 ** k), which is k times // 2, and 0 once a // 2 has given 0
RECURSIVE floor_div_pow2(_, _)
floor_div_pow2(x, k) ==
    IF k = 0 \/ x = <<0, 0>> THEN x ELSE floor_div_pow2(halve(x), k - 1)

\* calculate_block_reward returning the remainder below the cap as it is.
calculate_block_reward_no_max(L, block_height) ==
    LET halvings == block_height \div BLOCK_REWARD_HALVING_BLOCKS
    IN  IF halvings >= 64 THEN <<0, 0>>
        ELSE LET reward == floor_div_pow2(<<BLOCK_REWARD_START, 0>>, halvings)
                 sum == L.total_supply + reward[1]
             IN  IF sum > TOKEN_MAX_SUPPLY \/ (sum = TOKEN_MAX_SUPPLY /\ reward[2] > 0)
                 THEN <<TOKEN_MAX_SUPPLY - L.total_supply, 0>>
                 ELSE reward

\* The reward as a pair <<t, u>>; total_supply is a whole number of tokens.
calculate_block_reward(L, block_height) ==
    LET halvings == block_height \div BLOCK_REWARD_HALVING_BLOCKS
    IN  IF halvings >= 64 THEN <<0, 0>>
        ELSE LET reward == floor_div_pow2(<<BLOCK_REWARD_START, 0>>, halvings)
                 sum == L.total_supply + reward[1]
             IN  IF sum > TOKEN_MAX_SUPPLY \/ (sum = TOKEN_MAX_SUPPLY /\ reward[2] > 0)
                 THEN LET remaining == TOKEN_MAX_SUPPLY - L.total_supply
                      IN  IF remaining > 0 THEN <<remaining, 0>> ELSE <<0, 0>>
                 ELSE reward

----------------------------------------------------------------------------
(* Block *)

Min(a, b) == IF a < b THEN a ELSE b

TxDigest(tx) ==
    IF IsTokenTx(tx)
    THEN TypeCode(tx.tx_type) * 7 + AddrCode(tx.sender) * 11
         + AddrCode(tx.recipient) * 13 + (tx.amount % 101) * 17
         + (tx.fee % 101) * 19 + tx.timestamp * 23
         + (IF tx.signature = NoSignature THEN 0 ELSE 29)
    ELSE 31

RECURSIVE TxsDigest(_)
TxsDigest(txs) ==
    IF txs = <<>> THEN 1
    ELSE (TxsDigest(SubSeq(txs, 1, Len(txs) - 1)) * 37 + TxDigest(txs[Len(txs)]))
         % HashSpace

\* Block.calculate_hash: a digest of the five hashed fields.
calculate_hash(index, previous_hash, timestamp, transactions, validator) ==
    (index * 3 + previous_hash * 5 + timestamp * 7 + AddrCode(validator) * 11
     + TxsDigest(transactions) * 13) % HashSpace

Block(index, previous_hash, timestamp, transactions, validator) ==
    [index |-> index, previous_hash |-> previous_hash, timestamp |-> timestamp,
     transactions |-> transactions, validator |-> validator,
     hash |-> calculate_hash(index, previous_hash, timestamp, transactions, validator)]

----------------------------------------------------------------------------
(* ProofOfStake.  stakes is the dict in insertion order: a sequence of       *)
(* [address, amount]; P stands for the engine: [stakes, validators].         *)

StakeIndex(s, address) ==
    IF \E i \in 1..Len(s) : s[i].address = address
    THEN CHOOSE i \in 1..Len(s) : s[i].address = address
    ELSE 0

\* self.stakes[address] = amount
SetStake(s, address, amount) ==
    IF StakeIndex(s, address) = 0
    THEN Append(s, [address |-> address, amount |-> amount])
    ELSE [s EXCEPT ![StakeIndex(s, address)].amount = amount]

\* sorted(self.stakes.items(), key=lambda x: x[1], reverse=True) is stable:
\* item i comes after the items with a larger stake and after the earlier
\* items with the same stake.  This is the position it is sorted to.
sorted_position(s, i) ==
    1 + Cardinality({j \in 1..Len(s) :
                       \/ s[j].amount > s[i].amount
                       \/ s[j].amount = s[i].amount /\ j < i})

\* The addresses of sorted_stakes[:VALIDATOR_SET_SIZE]
update_validators(s) ==
    {s[i].address : i \in {j \in 1..Len(s) :
                              sorted_position(s, j) <= VALIDATOR_SET_SIZE}}

\* int(sha256(seed).hexdigest(), 16)
SeedInt(seed) == (seed * seed + 7 * seed + 3) % HashSpace

RECURSIVE SumStakes(_)
SumStakes(s) == IF s = <<>> THEN 0 ELSE Head(s).amount + SumStakes(Tail(s))

\* select_validator drawing the proposer with random.choice in every case.
select_validator_random(P, seed) ==
    IF P.validators = {} THEN {} ELSE P.validators

\* The set of addresses select_validator can return; empty when it raises.
select_validator(P, seed) ==
    IF P.validators = {} THEN {}
    ELSE LET total_stake == SumStakes(P.stakes)
         IN  IF total_stake = 0 THEN P.validators
             ELSE LET r == SeedInt(seed) % total_stake
                      hit == {i \in 1..Len(P.stakes) :
                                r < SumStakes(SubSeq(P.stakes, 1, i))}
                  IN  IF hit = {} THEN P.validators
                      ELSE {P.stakes[CHOOSE i \in hit : \A j \in hit : i <= j].address}

\* verify_block with the timestamp test `<` in place of `<=`.
verify_block_lt(P, block, previous_block) ==
    IF block.timestamp < previous_block.timestamp THEN {FALSE}
    ELSE IF block.validator \notin P.validators THEN {FALSE}
    ELSE {block.validator = expected :
            expected \in select_validator(P, previous_block.hash)}

\* verify_block without the two tests of the block's validator.
verify_block_timestamp_only(P, block, previous_block) ==
    IF block.timestamp <= previous_block.timestamp THEN {FALSE} ELSE {TRUE}

\* The set of results verify_block can return.
verify_block(P, block, previous_block) ==
    IF block.timestamp <= previous_block.timestamp THEN {FALSE}
    ELSE IF block.validator \notin P.validators THEN {FALSE}
    ELSE {block.validator = expected :
            expected \in select_validator(P, previous_block.hash)}

----------------------------------------------------------------------------
(* Blockchain *)

GENESIS_AMOUNT == 100000000

genesis_token_tx(now) ==
    TokenTransaction("genesis", "system", "genesis_wallet", GENESIS_AMOUNT, 0,
                     now, NoSignature)

validate_token_transaction(L, tx) ==
    IF tx.tx_type \in {"genesis", "reward"} THEN TRUE
    ELSE IF tx.tx_type = "transfer" /\ get_balance(L, tx.sender) < tx.amount + tx.fee
         THEN FALSE
    ELSE IF tx.tx_type = "stake" /\ get_balance(L, tx.sender) < tx.amount + tx.fee
         THEN FALSE
    ELSE IF tx.tx_type = "unstake"
            /\ (get_staked_amount(L, tx.sender) < tx.amount
                \/ get_balance(L, tx.sender) < tx.fee)
         THEN FALSE
    ELSE TRUE

\* add_block, lines 152-165: every offered transaction is checked against the
\* ledger as it is before the block.
valid_transactions(L, transactions) ==
    SelectSeq(transactions,
              LAMBDA tx : IF IsTokenTx(tx) THEN validate_token_transaction(L, tx)
                          ELSE TRUE)

\* add_block, lines 167-177.  The reward of a block built in the first two
\* halving periods is a whole number of tokens, block_reward[1].
with_block_reward(valid, block_reward, validator, now) ==
    IF block_reward[1] > 0 \/ block_reward[2] > 0
    THEN Append(valid, TokenTransaction("reward", "system", validator,
                                        block_reward[1], 0, now, NoSignature))
    ELSE valid

\* add_block, lines 196-200: the result of apply_transaction is not looked at.
RECURSIVE apply_all(_, _)
apply_all(L, txs) ==
    IF txs = <<>> THEN L
    ELSE apply_all(IF IsTokenTx(Head(txs))
                   THEN apply_transaction(L, Head(txs)).ledger ELSE L,
                   Tail(txs))

\* A purge that empties the pool whatever the block confirmed.
remove_confirmed_transactions_clear(pending, confirmed_txs) == <<>>

remove_confirmed_transactions(pending, confirmed_txs) ==
    LET confirmed_ids == {confirmed_txs[i].tx_id :
                            i \in {j \in 1..Len(confirmed_txs) :
                                     "tx_id" \in DOMAIN confirmed_txs[j]}}
    IN  SelectSeq(pending,
                  LAMBDA tx : ~("tx_id" \in DOMAIN tx /\ tx.tx_id \in confirmed_ids))

get_latest_block(c) == c[Len(c)]

\* The block add_block builds from the offered transactions.
new_block(c, L, transactions, validator, now) ==
    Block(Len(c), get_latest_block(c).hash, now,
          with_block_reward(valid_transactions(L, transactions),
                            calculate_block_reward(L, Len(c)), validator, now),
          validator)

\* add_block appending the block before the consensus check.
add_block_append_first(c, L, pending, transactions, validator, now, verified) ==
    LET block == new_block(c, L, transactions, validator, now)
    IN  IF ~verified
        THEN [ok |-> FALSE, chain |-> Append(c, block), token_ledger |-> L,
              pending_transactions |-> pending]
        ELSE [ok |-> TRUE, chain |-> Append(c, block),
              token_ledger |-> apply_all(L, block.transactions),
              pending_transactions |->
                  remove_confirmed_transactions(pending, block.transactions)]

\* add_block applying the offered transactions without the block reward.
add_block_reward_not_applied(c, L, pending, transactions, validator, now, verified) ==
    LET block == new_block(c, L, transactions, validator, now)
    IN  IF ~verified
        THEN [ok |-> FALSE, chain |-> c, token_ledger |-> L,
              pending_transactions |-> pending]
        ELSE [ok |-> TRUE, chain |-> Append(c, block),
              token_ledger |-> apply_all(L, valid_transactions(L, transactions)),
              pending_transactions |->
                  remove_confirmed_transactions(pending, block.transactions)]

\* add_block: what it returns and leaves behind, `verified` being the result
\* of consensus.verify_block on the new block.
add_block(c, L, pending, transactions, validator, now, verified) ==
    LET block == new_block(c, L, transactions, validator, now)
    IN  IF ~verified
        THEN [ok |-> FALSE, chain |-> c, token_ledger |-> L,
              pending_transactions |-> pending]
        ELSE [ok |-> TRUE, chain |-> Append(c, block),
              token_ledger |-> apply_all(L, block.transactions),
              pending_transactions |->
                  remove_confirmed_transactions(pending, block.transactions)]

\* A create_genesis_block that puts the genesis transaction into the block
\* without applying it to the ledger.
create_genesis_block_unapplied(now) ==
    [chain |-> <<Block(0, 0, now, <<genesis_token_tx(now)>>, "genesis")>>,
     token_ledger |-> EmptyLedger]

\* Blockchain(): the genesis block and the ledger after the genesis emission.
create_genesis_block(now) ==
    [chain |-> <<Block(0, 0, now, <<genesis_token_tx(now)>>, "genesis")>>,
     token_ledger |-> apply_transaction(EmptyLedger, genesis_token_tx(now)).ledger]

\* add_transaction and add_stake_transaction: the transaction they build, with
\* timestamp time.time() and no signature, and the pool they leave behind.
add_transaction(L, pending, sender, recipient, amount, fee, now) ==
    LET tx == TokenTransaction("transfer", sender, recipient, amount, fee, now,
                               NoSignature)
    IN  IF ~validate_token_transaction(L, tx)
        THEN [ok |-> FALSE, pending_transactions |-> pending]
        ELSE [ok |-> TRUE, pending_transactions |-> Append(pending, tx)]

add_stake_transaction(L, pending, sender, amount, fee, now) ==
    LET tx == TokenTransaction("stake", sender, "staking_pool", amount, fee, now,
                               NoSignature)
    IN  IF ~validate_token_transaction(L, tx)
        THEN [ok |-> FALSE, pending_transactions |-> pending]
        ELSE [ok |-> TRUE, pending_transactions |-> Append(pending, tx)]

\* is_chain_valid for the blocks c under the engine P.
is_chain_valid(c, P) ==
    \A i \in 2..Len(c) :
        /\ c[i].hash = Block(c[i].index, c[i].previous_hash, c[i].timestamp,
                             c[i].transactions, c[i].validator).hash
        /\ c[i].previous_hash = c[i - 1].hash
        /\ verify_block(P, c[i], c[i - 1]) = {TRUE}

\* NodeNetwork.consensus: the scan of the peers' answers to GET /blocks for the
\* first longest one, longer than the local chain; None is the empty sequence.
RECURSIVE longest_served(_, _, _)
longest_served(responses, max_length, longest_chain) ==
    IF responses = <<>> THEN longest_chain
    ELSE IF Len(Head(responses)) > max_length
         THEN longest_served(Tail(responses), Len(Head(responses)), Head(responses))
         ELSE longest_served(Tail(responses), max_length, longest_chain)

\* What consensus() returns, and the chain of the node after it: the local one.
consensus(c, responses) ==
    LET longest_chain == longest_served(responses, Len(c), <<>>)
    IN  [replaced |-> longest_chain # <<>>, longest_chain |-> longest_chain,
         chain |-> c]

----------------------------------------------------------------------------
(* BlockchainStorage: the three tables of blockchain.db, each the sequence   *)
(* of its rows.                                                              *)

EmptyStore == [blocks |-> <<>>, transactions |-> <<>>, stakes |-> <<>>]

\* tx.get(key, default)
get(tx, key, default) == IF key \in DOMAIN tx THEN tx[key] ELSE default

\* The INSERTs of the transactions of one block.  hash is the PRIMARY KEY of
\* the table: a second row with the same hash raises IntegrityError.
RECURSIVE insert_transactions(_, _, _)
insert_transactions(view, block_hash, txs) ==
    IF txs = <<>> THEN [raised |-> FALSE, view |-> view]
    ELSE LET tx == Head(txs)
             row == [hash |-> get(tx, "hash", ""), block_hash |-> block_hash,
                     sender |-> get(tx, "from", ""), recipient |-> get(tx, "to", ""),
                     amount |-> get(tx, "amount", 0),
                     timestamp |-> get(tx, "timestamp", 0),
                     signature |-> get(tx, "signature", ""),
                     type |-> get(tx, "type", "transfer")]
         IN  IF \E i \in 1..Len(view.transactions) :
                    view.transactions[i].hash = row.hash
             THEN [raised |-> TRUE, view |-> view]
             ELSE insert_transactions(
                      [view EXCEPT !.transactions = Append(@, row)],
                      block_hash, Tail(txs))

\* The loop over blockchain.chain.  Reading block.signature raises
\* AttributeError for a block that has no such attribute: Block.__init__ sets
\* none, load_state alone does.
RECURSIVE insert_blocks(_, _)
insert_blocks(view, blocks) ==
    IF blocks = <<>> THEN [raised |-> FALSE, view |-> view]
    ELSE LET block == Head(blocks)
         IN  IF "signature" \notin DOMAIN block
                \/ \E i \in 1..Len(view.blocks) : view.blocks[i].hash = block.hash
             THEN [raised |-> TRUE, view |-> view]
             ELSE LET row == [hash |-> block.hash, block_index |-> block.index,
                              previous_hash |-> block.previous_hash,
                              timestamp |-> block.timestamp,
                              transactions |-> block.transactions,
                              validator |-> block.validator,
                              signature |-> block.signature]
                      res == insert_transactions(
                                 [view EXCEPT !.blocks = Append(@, row)],
                                 block.hash, block.transactions)
                  IN  IF res.raised THEN res
                      ELSE insert_blocks(res.view, Tail(blocks))

\* save_state on the connection view: the three DELETEs, the INSERTs and the
\* commit.  The loop over consensus.stakes subscripts a float and raises
\* TypeError at its first item.  What an exception leaves is not committed.
save_state(view, c, s) ==
    LET res == insert_blocks(EmptyStore, c)
    IN  IF res.raised THEN [raised |-> TRUE, conn |-> res.view]
        ELSE IF s # <<>> THEN [raised |-> TRUE, conn |-> res.view]
        ELSE [raised |-> FALSE, conn |-> res.view]

\* The transactions load_state builds for a block from the rows of the table.
loaded_transactions(view, block_hash) ==
    LET rows == SelectSeq(view.transactions, LAMBDA r : r.block_hash = block_hash)
    IN  [i \in 1..Len(rows) |->
           [hash |-> rows[i].hash, from |-> rows[i].sender, to |-> rows[i].recipient,
            amount |-> rows[i].amount, timestamp |-> rows[i].timestamp,
            signature |-> rows[i].signature, type |-> rows[i].type]]

\* load_state at time now: None for an empty blocks table; else a Blockchain()
\* with the stored blocks, rebuilt by Block(), appended after its own genesis
\* block, the stored stakes put into consensus.stakes, and the ledger and the
\* validators of Blockchain().  (The rows are in chain order, by block_index.)
load_state(view, now) ==
    IF view.blocks = <<>> THEN [found |-> FALSE]
    ELSE LET fresh == create_genesis_block(now)
             loaded == [i \in 1..Len(view.blocks) |->
                          Block(view.blocks[i].block_index,
                                view.blocks[i].previous_hash,
                                view.blocks[i].timestamp,
                                loaded_transactions(view, view.blocks[i].hash),
                                view.blocks[i].validator) @@
                          [signature |-> view.blocks[i].signature]]
         IN  [found |-> TRUE, chain |-> fresh.chain \o loaded,
              token_ledger |-> fresh.token_ledger,
              stakes |-> view.stakes, validators |-> {}]

----------------------------------------------------------------------------
(* Threads of a node: the main loop, a caller of GrishiniumNode.stake, and   *)
(* the handler threads of ThreadedHTTPServer.  Nothing in the code locks.    *)

Threads == {"start", "stake"}

\* The frame of a thread that is in no add_block call.
NoFrame == [pc |-> "idle", block |-> [index |-> -1], purged |-> <<>>]

NoCalls == [t \in Threads |-> NoFrame]

----------------------------------------------------------------------------
(* NodeNetwork and NodeServer: peers, gossip and typed messages              *)

Peers == {"p1", "p2"}

MessageTypes == {"ping", "echo"}

\* The handlers a type can be registered with: NodeNetwork.handle_ping, a
\* handler that returns its argument, and one that raises.  "none" stands for
\* a type that is no key of message_handlers.
Handlers == {"handle_ping", "echo", "raising"}

\* NodeNetwork.initialize registers handle_ping for "ping".
InitialHandlers == [t \in MessageTypes |-> IF t = "ping" THEN "handle_ping" ELSE "none"]

\* node_info: the last_seen of every node_id, -1 for an id that is no key.
NoNodeInfo == [p \in Peers |-> -1]

\* register_message_handler
register_message_handler(handlers, message_type, handler) ==
    [handlers EXCEPT ![message_type] = handler]

\* A JSON object is the record of its members; null is the record JsonNull.
JsonNull == [json |-> "null"]

is_object(v) == "json" \notin DOMAIN v

\* What a handler does with the data of a message: whether it raises, what it
\* returns and the node_info it leaves.  handle_ping evaluates
\* 'node_id' in data, which raises TypeError for null.
run_handler(handler, data, info, now) ==
    CASE handler = "raising" -> [raised |-> TRUE, result |-> JsonNull, node_info |-> info]
      [] handler = "echo" -> [raised |-> FALSE, result |-> data, node_info |-> info]
      [] OTHER ->
           IF ~is_object(data)
           THEN [raised |-> TRUE, result |-> JsonNull, node_info |-> info]
           ELSE [raised |-> FALSE, result |-> [status |-> "ok"],
                 node_info |-> IF "node_id" \in DOMAIN data
                               THEN [info EXCEPT ![data.node_id] = now]
                               ELSE info]

\* A message type that is a JSON array, which is not hashable.
JsonArrayType == "[]"

\* The /message branch of do_POST on the parsed body.  status 0 stands for an
\* exception that leaves do_POST: the connection is closed with no answer.
\* 'type' in post_data raises TypeError for null, and message_type in
\* message_handlers raises TypeError for a type that is not hashable.
post_message(handlers, post_data, info, now) ==
    LET answer(status, invoked, result, node_info_after) ==
            [status |-> status, invoked |-> invoked, result |-> result,
             argument |-> IF invoked = <<>> THEN JsonNull ELSE post_data.data,
             node_info |-> node_info_after]
    IN  IF ~is_object(post_data) THEN answer(0, <<>>, JsonNull, info)
        ELSE IF ~("type" \in DOMAIN post_data /\ "data" \in DOMAIN post_data)
        THEN answer(400, <<>>, JsonNull, info)
        ELSE IF post_data.type = JsonArrayType THEN answer(0, <<>>, JsonNull, info)
        ELSE IF post_data.type \notin MessageTypes \/ handlers[post_data.type] = "none"
        THEN answer(400, <<>>, JsonNull, info)
        ELSE LET handler == handlers[post_data.type]
                 res == run_handler(handler, post_data.data, info, now)
             IN  IF res.raised
                 THEN answer(500, <<handler>>, JsonNull, res.node_info)
                 ELSE answer(200, <<handler>>, res.result, res.node_info)

\* The body send_message posts: {"type": message_type, **data}.
send_message_body(message_type, data) == [type |-> message_type] @@ data

\* broadcast_transaction and broadcast_block: the loop over the peers, each
\* answering 200, answering an error status, or failing with an exception.
\* A broadcast that gives up at the first peer that does not answer 200.
RECURSIVE broadcast_until_failure(_, _)
broadcast_until_failure(peers, outcome) ==
    IF peers = {} THEN [attempted |-> {}, successful_nodes |-> 0]
    ELSE LET node == CHOOSE p \in peers : TRUE
         IN  IF outcome[node] # 200
             THEN [attempted |-> {node}, successful_nodes |-> 0]
             ELSE LET rest == broadcast_until_failure(peers \ {node}, outcome)
                  IN  [attempted |-> rest.attempted \cup {node},
                       successful_nodes |-> rest.successful_nodes + 1]

RECURSIVE broadcast(_, _)
broadcast(peers, outcome) ==
    IF peers = {} THEN [attempted |-> {}, successful_nodes |-> 0]
    ELSE LET node == CHOOSE p \in peers : TRUE
             rest == broadcast(peers \ {node}, outcome)
         IN  [attempted |-> rest.attempted \cup {node},
              successful_nodes |-> rest.successful_nodes
                                     + (IF outcome[node] = 200 THEN 1 ELSE 0)]

----------------------------------------------------------------------------
(* Inputs *)

\* Transactions applied to the stand-alone ledger.
LedgerTxs ==
    {TokenTransaction("genesis", "system", "alice", 10, 0, 0, NoSignature),
     TokenTransaction("transfer", "alice", "bob", 6, 1, 0, NoSignature),
     TokenTransaction("transfer", "alice", "alice", 3, 0, 0, NoSignature),
     TokenTransaction("transfer", "bob", "alice", -1, 0, 0, NoSignature),
     TokenTransaction("stake", "alice", "staking_pool", 4, 1, 0, NoSignature),
     TokenTransaction("unstake", "alice", "alice", 4, 0, 0, NoSignature),
     TokenTransaction("reward", "system", "bob", 5, 0, 0, NoSignature),
     TokenTransaction("reward", "system", "bob", (TOKEN_MAX_SUPPLY - 10) \div 3,
                      0, 0, NoSignature),
     TokenTransaction("fee", "system", "bob", 1, 0, 0, NoSignature)}

\* Heights calculate_block_reward is asked about: around the first halving,
\* where the halved reward stops being a whole number of minimal units, where
\* it reaches one unit and then none, and around the 64th halving.
RewardHeights ==
    {1, BLOCK_REWARD_HALVING_BLOCKS - 1}
    \cup {k * BLOCK_REWARD_HALVING_BLOCKS : k \in {1, 2, 9, 10, 32, 33, 63, 64}}
    \cup {64 * BLOCK_REWARD_HALVING_BLOCKS + 1}

\* Bodies of POST /transaction: any JSON object a peer or client sends.
PostTxs ==
    {TokenTransaction("transfer", "genesis_wallet", "alice", 60000000, 1, 0,
                      sign("genesis_wallet", "transfer", "genesis_wallet", "alice",
                           60000000, 1, 0)),
     TokenTransaction("transfer", "genesis_wallet", "bob", 60000000, 0, 0,
                      NoSignature),
     TokenTransaction("transfer", "alice", "bob", -1, 0, 0, NoSignature),
     TokenTransaction("reward", "system", "bob", 7, 0, 0, NoSignature),
     [from |-> "alice", to |-> "staking_pool", amount |-> 100, timestamp |-> 0,
      type |-> "stake"]}

Stakers == {"alice", "bob"}
StakeAmounts == {MIN_STAKE_AMOUNT - 1, MIN_STAKE_AMOUNT}

\* Further stakers, as many as it takes to fill the validator set: the
\* addresses "v101", "v102", ..., each staking twice the minimum.
crowd_address(i) == "v" \o ToString(100 + i)

crowd_stakes(n) ==
    [i \in 1..n |-> [address |-> crowd_address(i), amount |-> 2 * MIN_STAKE_AMOUNT]]

CrowdSizes == {VALIDATOR_SET_SIZE - 1, VALIDATOR_SET_SIZE, VALIDATOR_SET_SIZE + 1}

----------------------------------------------------------------------------
(* Initial state: a fresh TokenLedger, and a Blockchain() just constructed.  *)

NoCall == [op |-> "none", ok |-> TRUE, validator |-> "none"]

genesis_block ==
    Block(0, 0, 0, <<genesis_token_tx(0)>>, "genesis")

Init ==
    /\ ledger = EmptyLedger
    /\ applied = 0
    /\ posted = 0
    /\ chain = <<genesis_block>>
    /\ pending_transactions = <<>>
    /\ token_ledger = apply_transaction(EmptyLedger, genesis_token_tx(0)).ledger
    /\ stakes = <<>>
    /\ validators = {}
    /\ clock = 0
    /\ phase = "running"
    /\ db = EmptyStore
    /\ conn = EmptyStore
    /\ listener = "open"
    /\ nodes = {}
    /\ node_info = NoNodeInfo
    /\ message_handlers = InitialHandlers
    /\ calls = NoCalls
    /\ last = NoCall

----------------------------------------------------------------------------
(* Operations on the stand-alone ledger *)

ApplyTransaction(tx) ==
    /\ applied < MaxOps
    /\ LET res == apply_transaction(ledger, tx)
       IN  /\ ledger' = res.ledger
           /\ last' = [op |-> "apply_transaction", ok |-> res.ok,
                        validator |-> "none", tx |-> tx]
    /\ applied' = applied + 1
    /\ UNCHANGED chainVars

\* TokenLedger.calculate_block_reward: reads the ledger, writes nothing.
CalculateBlockReward(block_height) ==
    /\ last' = [op |-> "calculate_block_reward", ok |-> TRUE, validator |-> "none",
                block_height |-> block_height,
                reward |-> calculate_block_reward(ledger, block_height)]
    /\ UNCHANGED <<ledger, applied, chainVars>>

LedgerNext ==
    \/ \E tx \in LedgerTxs : ApplyTransaction(tx)
    \/ \E h \in RewardHeights : CalculateBlockReward(h)

LedgerSpec == Init /\ [][LedgerNext]_vars

----------------------------------------------------------------------------
(* Operations on the node *)

Tick ==
    /\ clock < MaxTime
    /\ clock' = clock + 1
    /\ UNCHANGED <<ledger, applied, posted, chain, pending_transactions,
                   token_ledger, stakes, validators, last>>
    /\ UNCHANGED nodeVars
    /\ UNCHANGED otherVars

\* ProofOfStake.stake.  stake_timestamps, which stake also writes, is read by
\* unstake and get_stake_info alone; no operation below reads it.
Stake(address, amount) ==
    /\ phase = "running"
    /\ IF amount < MIN_STAKE_AMOUNT
       THEN /\ last' = NoCall
            /\ UNCHANGED <<stakes, validators>>
       ELSE /\ stakes' = SetStake(stakes, address, amount)
            /\ validators' = update_validators(stakes')
            /\ last' = NoCall
    /\ UNCHANGED <<ledger, applied, posted, chain, pending_transactions,
                   token_ledger, clock>>
    /\ UNCHANGED nodeVars
    /\ UNCHANGED otherVars

\* NodeServer.do_POST, path /transaction, with a 'transaction' in the body
PostTransaction(transaction) ==
    /\ posted < MaxPosts
    /\ posted' = posted + 1
    /\ pending_transactions' = Append(pending_transactions, transaction)
    /\ last' = NoCall
    /\ UNCHANGED <<ledger, applied, chain, token_ledger, stakes, validators, clock>>
    /\ UNCHANGED nodeVars
    /\ UNCHANGED otherVars

\* Blockchain.add_block
AddBlock(transactions, validator) ==
    /\ Len(chain) < MaxChain
    /\ LET block == new_block(chain, token_ledger, transactions, validator, clock)
           P == [stakes |-> stakes, validators |-> validators]
       IN  \E verified \in verify_block(P, block, get_latest_block(chain)) :
              LET res == add_block(chain, token_ledger, pending_transactions,
                                   transactions, validator, clock, verified)
              IN  /\ chain' = res.chain
                  /\ token_ledger' = res.token_ledger
                  /\ pending_transactions' = res.pending_transactions
                  /\ last' = [op |-> "add_block", ok |-> res.ok,
                              validator |-> validator]
    /\ UNCHANGED <<ledger, applied, posted, stakes, validators, clock>>
    /\ UNCHANGED nodeVars
    /\ UNCHANGED otherVars

Next ==
    \/ Tick
    \/ \E a \in Stakers, n \in StakeAmounts : Stake(a, n)
    \/ \E tx \in PostTxs : PostTransaction(tx)
    \/ \E v \in Addr : AddBlock(pending_transactions, v)

Spec == Init /\ [][Next]_vars

----------------------------------------------------------------------------
(* The consensus engine on its own, with enough stakers to fill the          *)
(* validator set.                                                            *)

\* stake(crowd_address(i), 2 * MIN_STAKE_AMOUNT) for i = 1..n, one call after
\* the other: each is a new key of the dict, added at its end.
StakeCrowd(n) ==
    /\ \A i \in 1..Len(stakes) : stakes[i].address \in Addr
    /\ stakes' = stakes \o crowd_stakes(n)
    /\ validators' = update_validators(stakes')
    /\ last' = NoCall
    /\ UNCHANGED <<ledger, applied, posted, chain, pending_transactions,
                   token_ledger, clock>>
    /\ UNCHANGED nodeVars
    /\ UNCHANGED otherVars

StakeNext ==
    \/ \E a \in Addr, n \in StakeAmounts : Stake(a, n)
    \/ \E n \in CrowdSizes : StakeCrowd(n)

StakeSpec == Init /\ [][StakeNext]_vars

----------------------------------------------------------------------------
(* GrishiniumNode: one node process over blockchain.db, stopped and started  *)
(* again, with its main loop, its storage and its synchronisation thread.    *)

NodeAddress == "alice"

CONFIG_MIN_STAKE_AMOUNT == 100

FOUNDER_STAKE == 1000

OVERDRAFT_AMOUNT == 60000000

\* The calls of add_transaction and add_stake_transaction the clients make.
AddTxs ==
    {<<"genesis_wallet", "bob", OVERDRAFT_AMOUNT, 0>>, <<"alice", "bob", 5, 0>>}

AddStakeTxs == {<<"genesis_wallet", FOUNDER_STAKE, 0>>}

\* The transaction a peer gossips to POST /transaction of the node: a transfer
\* out of an address that holds nothing.
NodePostTxs == {TokenTransaction("transfer", "bob", "genesis_wallet", 5, 0, 0,
                                 NoSignature)}

\* The chains the peers may serve: the local chain, the local chain with one
\* more block of the node's own address, that chain with a broken link, and
\* the local chain behind another genesis block.
peer_block ==
    new_block(chain, token_ledger, <<>>, NodeAddress,
              get_latest_block(chain).timestamp + 1)

PeerChains ==
    {chain,
     Append(chain, peer_block),
     Append(chain, [peer_block EXCEPT !.previous_hash = (@ + 1) % HashSpace]),
     create_genesis_block(chain[1].timestamp + 1).chain \o chain}

PeerResponses ==
    {<<>>} \cup {<<c>> : c \in PeerChains}
           \cup {<<Append(chain, peer_block),
                   create_genesis_block(chain[1].timestamp + 1).chain \o chain>>}

NodeCall(op, ok, save) ==
    [op |-> op, ok |-> ok, validator |-> NodeAddress, save |-> save]

NodeInit ==
    /\ ledger = EmptyLedger
    /\ applied = 0
    /\ posted = 0
    /\ chain = <<>>
    /\ pending_transactions = <<>>
    /\ token_ledger = EmptyLedger
    /\ stakes = <<>>
    /\ validators = {}
    /\ clock = 0
    /\ phase = "off"
    /\ db = EmptyStore
    /\ conn = EmptyStore
    /\ listener = "closed"
    /\ nodes = {}
    /\ node_info = NoNodeInfo
    /\ message_handlers = InitialHandlers
    /\ calls = NoCalls
    /\ last = NoCall

\* GrishiniumNode(): Blockchain(), the connection to blockchain.db, _load_state
\* and NodeNetwork.initialize.
Construct ==
    /\ phase = "off"
    /\ LET fresh == create_genesis_block(clock)
           saved_state == load_state(db, clock)
       IN  IF saved_state.found
           THEN /\ chain' = saved_state.chain
                /\ token_ledger' = saved_state.token_ledger
                /\ stakes' = saved_state.stakes
           ELSE /\ chain' = fresh.chain
                /\ token_ledger' = fresh.token_ledger
                /\ stakes' = <<>>
    /\ validators' = {}
    /\ pending_transactions' = <<>>
    /\ conn' = db
    /\ phase' = "running"
    /\ listener' = "open"
    /\ last' = NodeCall("init", TRUE, "none")
    /\ nodes' = {}
    /\ node_info' = NoNodeInfo
    /\ message_handlers' = InitialHandlers
    /\ UNCHANGED <<ledger, applied, posted, clock, db, calls>>

\* _save_state: save_state with its exceptions caught and logged.
SaveState(c) ==
    LET saved == save_state(conn, c, stakes)
    IN  /\ conn' = saved.conn
        /\ db' = IF saved.raised THEN db ELSE saved.conn

save_status(c) == IF save_state(conn, c, stakes).raised THEN "raised" ELSE "committed"

\* add_block(transactions, self.address) followed, when it succeeds, by
\* _save_state.
AddBlockAndSave(op, transactions) ==
    LET block == new_block(chain, token_ledger, transactions, NodeAddress, clock)
        P == [stakes |-> stakes, validators |-> validators]
    IN  \E verified \in verify_block(P, block, get_latest_block(chain)) :
           LET res == add_block(chain, token_ledger, pending_transactions,
                                transactions, NodeAddress, clock, verified)
           IN  /\ chain' = res.chain
               /\ token_ledger' = res.token_ledger
               /\ pending_transactions' = res.pending_transactions
               /\ IF res.ok
                  THEN /\ SaveState(res.chain)
                       /\ last' = NodeCall(op, TRUE, save_status(res.chain))
                  ELSE /\ UNCHANGED <<db, conn>>
                       /\ last' = NodeCall(op, FALSE, "none")

\* One turn of the loop of start() in which the node is a validator and the
\* pool is not empty.
MainLoop ==
    /\ phase = "running"
    /\ Len(chain) < MaxChain
    /\ NodeAddress \in validators
    /\ pending_transactions # <<>>
    /\ AddBlockAndSave("start", pending_transactions)
    /\ UNCHANGED <<ledger, applied, posted, stakes, validators, clock, phase, listener>>
    /\ UNCHANGED otherVars

\* GrishiniumNode.stake(amount).  get_balance is in units of 10^-8 token and
\* amount in tokens.
NodeStake(amount) ==
    /\ phase = "running"
    /\ Len(chain) < MaxChain
    /\ IF amount < CONFIG_MIN_STAKE_AMOUNT
          \/ get_balance(token_ledger, NodeAddress)
                < (amount + TokenUnit - 1) \div TokenUnit
       THEN /\ last' = NodeCall("stake", FALSE, "none")
            /\ UNCHANGED <<chain, token_ledger, pending_transactions, db, conn>>
       ELSE AddBlockAndSave("stake",
                <<[from |-> NodeAddress, to |-> "staking_pool", amount |-> amount,
                   timestamp |-> clock, type |-> "stake"]>>)
    /\ UNCHANGED <<ledger, applied, posted, stakes, validators, clock, phase, listener>>
    /\ UNCHANGED otherVars

\* stop(), and the end of the process: _save_state, then NodeNetwork.shutdown.
\* What the connection did not commit is gone with it.
StopNode ==
    /\ phase = "running"
    /\ db' = IF save_state(conn, chain, stakes).raised THEN db
             ELSE save_state(conn, chain, stakes).conn
    /\ conn' = db'
    /\ listener' = "closed"
    /\ phase' = "off"
    /\ last' = NodeCall("stop", TRUE, save_status(chain))
    /\ UNCHANGED <<ledger, applied, posted, chain, pending_transactions,
                   token_ledger, stakes, validators, clock>>
    /\ UNCHANGED otherVars

AddTransaction(sender, recipient, amount, fee) ==
    /\ phase = "running"
    /\ posted < MaxPosts
    /\ posted' = posted + 1
    /\ LET res == add_transaction(token_ledger, pending_transactions, sender,
                                  recipient, amount, fee, clock)
       IN  /\ pending_transactions' = res.pending_transactions
           /\ last' = NodeCall("add_transaction", res.ok, "none")
    /\ UNCHANGED <<ledger, applied, chain, token_ledger, stakes, validators, clock>>
    /\ UNCHANGED nodeVars
    /\ UNCHANGED otherVars

AddStakeTransaction(sender, amount, fee) ==
    /\ phase = "running"
    /\ posted < MaxPosts
    /\ posted' = posted + 1
    /\ LET res == add_stake_transaction(token_ledger, pending_transactions, sender,
                                        amount, fee, clock)
       IN  /\ pending_transactions' = res.pending_transactions
           /\ last' = NodeCall("add_stake_transaction", res.ok, "none")
    /\ UNCHANGED <<ledger, applied, chain, token_ledger, stakes, validators, clock>>
    /\ UNCHANGED nodeVars
    /\ UNCHANGED otherVars

\* One turn of _sync_loop: consensus() over the answers of the peers.
Consensus(responses) ==
    /\ phase = "running"
    /\ LET res == consensus(chain, responses)
       IN  /\ chain' = res.chain
           /\ last' = [op |-> "consensus", ok |-> res.replaced, validator |-> "none",
                       save |-> "none", responses |-> responses,
                       longest_chain |-> res.longest_chain]
    /\ UNCHANGED <<ledger, applied, posted, pending_transactions, token_ledger,
                   stakes, validators, clock>>
    /\ UNCHANGED nodeVars
    /\ UNCHANGED otherVars

\* The blocks peers gossip to POST /block: one more block of the node's own
\* address on the local tip, and that block with a broken link.
GossipedBlocks ==
    {peer_block, [peer_block EXCEPT !.previous_hash = (@ + 1) % HashSpace]}

\* POST /block with a body that has a block: the handler answers 200 and
\* touches neither the chain nor the ledger.
PostBlock(block) ==
    /\ last' = [op |-> "post_block", ok |-> TRUE, validator |-> "none",
                save |-> "none", status |-> 200, block |-> block]
    /\ UNCHANGED <<ledger, applied, posted, chain, pending_transactions,
                   token_ledger, stakes, validators, clock>>
    /\ UNCHANGED nodeVars
    /\ UNCHANGED otherVars

NodeNext ==
    \/ Construct
    \/ Tick
    \/ \E n \in StakeAmounts : Stake(NodeAddress, n)
    \/ \E t \in AddTxs : AddTransaction(t[1], t[2], t[3], t[4])
    \/ \E t \in AddStakeTxs : AddStakeTransaction(t[1], t[2], t[3])
    \/ phase = "running" /\ \E tx \in NodePostTxs : PostTransaction(tx)
    \/ MainLoop
    \/ \E n \in StakeAmounts : NodeStake(n)
    \/ StopNode
    \/ phase = "running" /\ \E responses \in PeerResponses : Consensus(responses)
    \/ phase = "running" /\ \E block \in GossipedBlocks : PostBlock(block)

NodeSpec == NodeInit /\ [][NodeNext]_vars

----------------------------------------------------------------------------
(* add_block statement by statement, run by threads that interleave: the     *)
(* main loop of start() and a thread that calls GrishiniumNode.stake, while  *)
(* handler threads serve POST /transaction and GET /blocks.                  *)

\* The transactions a thread passes to add_block: the main loop the pool, and
\* stake() its stake transaction, after its checks of the amount and the
\* balance.
call_ready(t) ==
    IF t = "start"
    THEN NodeAddress \in validators /\ pending_transactions # <<>>
    ELSE get_balance(token_ledger, NodeAddress)
           >= (CONFIG_MIN_STAKE_AMOUNT + TokenUnit - 1) \div TokenUnit

call_transactions(t) ==
    IF t = "start" THEN pending_transactions
    ELSE <<[from |-> NodeAddress, to |-> "staking_pool",
            amount |-> CONFIG_MIN_STAKE_AMOUNT, timestamp |-> clock,
            type |-> "stake"]>>

\* add_block up to verify_block: the new block on the tip the thread reads, or
\* the return of False.
Prepare(t) ==
    /\ calls[t].pc = "idle"
    /\ Len(chain) < MaxChain
    /\ call_ready(t)
    /\ LET block == new_block(chain, token_ledger, call_transactions(t),
                              NodeAddress, clock)
           P == [stakes |-> stakes, validators |-> validators]
       IN  \E verified \in verify_block(P, block, get_latest_block(chain)) :
              IF verified
              THEN /\ calls' = [calls EXCEPT ![t] = [pc |-> "verified",
                                                     block |-> block,
                                                     purged |-> <<>>]]
                   /\ UNCHANGED last
              ELSE /\ last' = NodeCall(t, FALSE, "none")
                   /\ UNCHANGED calls
    /\ UNCHANGED <<ledger, applied, posted, chain, pending_transactions,
                   token_ledger, stakes, validators, clock>>
    /\ UNCHANGED <<nodeVars, netVars>>

\* self.chain.append(new_block)
AppendBlock(t) ==
    /\ calls[t].pc = "verified"
    /\ chain' = Append(chain, calls[t].block)
    /\ calls' = [calls EXCEPT ![t].pc = "appended"]
    /\ UNCHANGED <<ledger, applied, posted, pending_transactions,
                   token_ledger, stakes, validators, clock, last>>
    /\ UNCHANGED <<nodeVars, netVars>>

\* The loop that applies the transactions of the block to the ledger.
ApplyBlock(t) ==
    /\ calls[t].pc = "appended"
    /\ token_ledger' = apply_all(token_ledger, calls[t].block.transactions)
    /\ calls' = [calls EXCEPT ![t].pc = "applied"]
    /\ UNCHANGED <<ledger, applied, posted, chain, pending_transactions,
                   stakes, validators, clock, last>>
    /\ UNCHANGED <<nodeVars, netVars>>

\* _remove_confirmed_transactions: the list comprehension over the pool.
PurgeBuild(t) ==
    /\ calls[t].pc = "applied"
    /\ calls' = [calls EXCEPT ![t].pc = "built",
                              ![t].purged = remove_confirmed_transactions(
                                  pending_transactions, calls[t].block.transactions)]
    /\ UNCHANGED <<ledger, applied, posted, chain, pending_transactions,
                   token_ledger, stakes, validators, clock, last>>
    /\ UNCHANGED <<nodeVars, netVars>>

\* The assignment of the new list to self.pending_transactions, the return of
\* True and the _save_state of the caller.
PurgeAssign(t) ==
    /\ calls[t].pc = "built"
    /\ pending_transactions' = calls[t].purged
    /\ calls' = [calls EXCEPT ![t] = NoFrame]
    /\ SaveState(chain)
    /\ last' = [NodeCall(t, TRUE, save_status(chain)) EXCEPT !.validator = NodeAddress]
              @@ [block |-> calls[t].block]
    /\ UNCHANGED <<ledger, applied, posted, chain, token_ledger, stakes,
                   validators, clock, phase, listener>>
    /\ UNCHANGED netVars

\* GET /blocks: the handler reads the chain.
GetBlocks ==
    /\ last' = [op |-> "get_blocks", ok |-> TRUE, validator |-> "none",
                blocks |-> chain]
    /\ UNCHANGED <<ledger, applied, chainVars>>

\* What the peers post while the node runs: the transfer out of an empty
\* address and a message that is no token transaction.
ThreadPostTxs ==
    NodePostTxs \cup {[from |-> "bob", to |-> "alice", amount |-> 1,
                       timestamp |-> 0, type |-> "transfer"]}

ThreadNext ==
    \/ Tick
    \/ Stake(NodeAddress, MIN_STAKE_AMOUNT)
    \/ \E tx \in ThreadPostTxs : PostTransaction(tx)
    \/ GetBlocks
    \/ \E t \in Threads :
          \/ Prepare(t)
          \/ AppendBlock(t)
          \/ ApplyBlock(t)
          \/ PurgeBuild(t)
          \/ PurgeAssign(t)

ThreadSpec == Init /\ [][ThreadNext]_vars

----------------------------------------------------------------------------
(* The network module of a running node: registration of peers and of        *)
(* handlers, messages that arrive at POST /message, and gossip.              *)

\* What a peer does with a gossiped request: it answers 200, answers 500, or
\* the request ends in an exception (refused connection, timeout), written 0.
PeerOutcomes == {200, 500, 0}

\* Bodies of POST /message, as json.loads returns them.
MessageBodies ==
    {[type |-> "ping", data |-> [node_id |-> "p1"]],
     [type |-> "echo", data |-> [node_id |-> "p1"]],
     [type |-> "ping", data |-> JsonNull],
     [type |-> "ping"],
     [data |-> JsonNull],
     [type |-> "unknown", data |-> JsonNull],
     [type |-> JsonArrayType, data |-> JsonNull],
     JsonNull}

\* The calls send_message(node, message_type, data) peers make to this node:
\* the ping of register_node, and a message whose data has a member "data".
SentMessages ==
    {<<"ping", [node_id |-> p]>> : p \in Peers} \cup {<<"echo", [data |-> JsonNull]>>}

NetCall(op, res, post_data, message_type, data) ==
    [op |-> op, ok |-> res.status = 200, validator |-> "none",
     status |-> res.status, invoked |-> res.invoked, result |-> res.result,
     argument |-> res.argument,
     body |-> post_data, message_type |-> message_type, data |-> data]

\* register_node(node_url); the ping it sends changes nothing on this node.
RegisterNode(node_url) ==
    /\ nodes' = nodes \cup {node_url}
    /\ last' = NoCall
    /\ UNCHANGED <<ledger, applied, chainVarsButNet, node_info, message_handlers>>

RegisterMessageHandler(message_type, handler) ==
    /\ message_handlers' = register_message_handler(message_handlers, message_type,
                                                    handler)
    /\ last' = NoCall
    /\ UNCHANGED <<ledger, applied, chainVarsButNet, nodes, node_info>>

\* POST /message with the body post_data.
PostMessage(post_data) ==
    LET res == post_message(message_handlers, post_data, node_info, clock)
    IN  /\ node_info' = res.node_info
        /\ last' = NetCall("post_message", res, post_data,
                           IF is_object(post_data) /\ "type" \in DOMAIN post_data
                           THEN post_data.type ELSE "none",
                           IF is_object(post_data) /\ "data" \in DOMAIN post_data
                           THEN post_data.data ELSE JsonNull)
        /\ UNCHANGED <<ledger, applied, chainVarsButNet, nodes, message_handlers>>

\* A peer's send_message(this node, message_type, data) arrives at do_POST.
ReceiveMessage(message_type, data) ==
    LET res == post_message(message_handlers, send_message_body(message_type, data),
                            node_info, clock)
    IN  /\ node_info' = res.node_info
        /\ last' = NetCall("send_message", res,
                           send_message_body(message_type, data), message_type, data)
        /\ UNCHANGED <<ledger, applied, chainVarsButNet, nodes, message_handlers>>

\* broadcast_block or broadcast_transaction (op) while the peers behave as
\* outcome says.
Broadcast(op, outcome) ==
    LET res == broadcast(nodes, outcome)
    IN  /\ last' = [op |-> op, ok |-> TRUE, validator |-> "none",
                    outcome |-> outcome, attempted |-> res.attempted,
                    successful_nodes |-> res.successful_nodes]
        /\ UNCHANGED <<ledger, applied, chainVarsButNet, netVars>>

NetNext ==
    \/ Tick
    \/ \E node_url \in Peers : RegisterNode(node_url)
    \/ \E t \in MessageTypes, h \in Handlers : RegisterMessageHandler(t, h)
    \/ \E post_data \in MessageBodies : PostMessage(post_data)
    \/ \E m \in SentMessages : ReceiveMessage(m[1], m[2])
    \/ \E op \in {"broadcast_block", "broadcast_transaction"},
          outcome \in [nodes -> PeerOutcomes] : Broadcast(op, outcome)

NetSpec == Init /\ [][NetNext]_vars

----------------------------------------------------------------------------
(* Definitions the properties are stated with *)

RECURSIVE SumOver(_, _)
SumOver(f, S) ==
    IF S = {} THEN 0
    ELSE LET a == CHOOSE x \in S : TRUE IN f[a] + SumOver(f, S \ {a})

\* The ledger obtained by applying every transaction of the chain c, in block
\* order and in-block order, to an empty ledger.
RECURSIVE replay(_)
replay(c) ==
    IF c = <<>> THEN EmptyLedger
    ELSE apply_all(replay(SubSeq(c, 1, Len(c) - 1)), c[Len(c)].transactions)

\* The ledger as it was when block number i of the chain was built.
LedgerBefore(i) == replay(SubSeq(chain, 1, i - 1))

\* Every token transaction of txs is accepted when they are applied in order.
RECURSIVE all_accepted(_, _)
all_accepted(L, txs) ==
    IF txs = <<>> THEN TRUE
    ELSE IF IsTokenTx(Head(txs))
         THEN /\ apply_transaction(L, Head(txs)).ok
              /\ all_accepted(apply_transaction(L, Head(txs)).ledger, Tail(txs))
         ELSE all_accepted(L, Tail(txs))

RECURSIVE chain_transactions(_)
chain_transactions(c) ==
    IF c = <<>> THEN <<>>
    ELSE chain_transactions(SubSeq(c, 1, Len(c) - 1)) \o c[Len(c)].transactions

Engine == [stakes |-> stakes, validators |-> validators]

Tip == get_latest_block(chain)

pairwise_different(txs) ==
    \A i, j \in 1..Len(txs) : i # j => txs[i] # txs[j]

rewards_of(block) ==
    SelectSeq(block.transactions,
              LAMBDA tx : IsTokenTx(tx) /\ tx.tx_type = "reward")

\* The scheduled reward of block h before any clamping, in whole tokens.
scheduled_reward(h) == calculate_block_reward(EmptyLedger, h)[1]

RECURSIVE scheduled_rewards(_)
scheduled_rewards(height) ==
    IF height = 0 THEN 0
    ELSE scheduled_reward(height) + scheduled_rewards(height - 1)

\* Arithmetic on amounts <<t, u>>, by multiplication only.
double(x) == <<2 * x[1] + (2 * x[2]) \div TokenUnit, (2 * x[2]) % TokenUnit>>

one_more(x) == IF x[2] + 1 = TokenUnit THEN <<x[1] + 1, 0>> ELSE <<x[1], x[2] + 1>>

amount_leq(x, y) == x[1] < y[1] \/ (x[1] = y[1] /\ x[2] <= y[2])

\* x * 2^k for x >= 0, or an amount above BLOCK_REWARD_START when the product is.
RECURSIVE times_pow2(_, _)
times_pow2(x, k) ==
    IF k = 0 \/ x[1] > BLOCK_REWARD_START THEN x ELSE times_pow2(double(x), k - 1)

\* q = floor(BLOCK_REWARD_START / 2^k): q * 2^k <= BLOCK_REWARD_START < (q + 1) * 2^k
is_floor_quotient(q, k) ==
    /\ amount_leq(<<0, 0>>, q)
    /\ amount_leq(times_pow2(q, k), <<BLOCK_REWARD_START, 0>>)
    /\ ~amount_leq(times_pow2(one_more(q), k), <<BLOCK_REWARD_START, 0>>)

\* floor(BLOCK_REWARD_START / 2^k) > remaining, for remaining in whole tokens
quotient_exceeds(k, remaining) ==
    \/ remaining < 0
    \/ amount_leq(times_pow2(one_more(<<remaining, 0>>), k), <<BLOCK_REWARD_START, 0>>)

\* The addresses of the model in lexicographic order of their characters.
LexOrder ==
    <<"alice", "bob", "genesis_wallet">>
    \o [i \in 1..(VALIDATOR_SET_SIZE + 1) |-> crowd_address(i)]

LexRank ==
    [a \in {LexOrder[i] : i \in 1..Len(LexOrder)} |->
        CHOOSE i \in 1..Len(LexOrder) : LexOrder[i] = a]

\* x comes before y in the canonical order: larger stake first, and of two
\* equal stakes the lexicographically smaller address first.
canonically_before(x, y) ==
    \/ x.amount > y.amount
    \/ x.amount = y.amount /\ LexRank[x.address] < LexRank[y.address]

\* The top VALIDATOR_SET_SIZE of the stakes of at least MIN_STAKE_AMOUNT, in
\* the canonical order.
canonical_validators(s) ==
    LET eligible == {i \in 1..Len(s) : s[i].amount >= MIN_STAKE_AMOUNT}
    IN  {s[i].address :
           i \in {j \in eligible :
                    Cardinality({k \in eligible : canonically_before(s[k], s[j])})
                        < VALIDATOR_SET_SIZE}}

\* Seeds of an election: the hashes of the blocks of the chain, and a few more.
ElectionSeeds == {chain[i].hash : i \in 1..Len(chain)} \cup {0, 10}

\* The same stakes, registered in the opposite order.
reversed(s) == [i \in 1..Len(s) |-> s[Len(s) + 1 - i]]

\* The stakes of the validators, in the order the engine keeps the stakes in.
validator_stakes(P) ==
    SelectSeq(P.stakes, LAMBDA x : x.address \in P.validators)

\* The proposer the claim describes for the engine P: the first validator
\* whose cumulative stake exceeds SeedInt(seed) mod T, for T the total stake of
\* the validator set.  The validators are walked in the order the engine keeps
\* them in, whatever order is the canonical one.
claimed_proposers(P, seed) ==
    LET v == validator_stakes(P)
        r == SeedInt(seed) % SumStakes(v)
    IN  {v[i].address :
           i \in {j \in 1..Len(v) : /\ SumStakes(SubSeq(v, 1, j)) > r
                                     /\ SumStakes(SubSeq(v, 1, j - 1)) <= r}}

\* The transaction of LedgerTxs with the given tx_id.
ledger_tx(id) == CHOOSE tx \in LedgerTxs : tx.tx_id = id

is_by(id, tx_type, a) == ledger_tx(id).tx_type = tx_type /\ ledger_tx(id).sender = a

----------------------------------------------------------------------------
(* Properties *)

\* C1: after any sequence of apply_transaction calls, total_supply equals the
\* sum of all balances plus the sum of all staked amounts.
C1_SupplyConservation ==
    ledger.total_supply = SumOver(ledger.balances, AllAddr)
                          + SumOver(ledger.staked_amounts, AllAddr)

\* C2: in every state reached by apply_transaction or add_block with
\* integer-valued transactions, every balance and every staked amount is >= 0.
C2_NonNegative ==
    \A a \in AllAddr :
        /\ ledger.balances[a] >= 0 /\ ledger.staked_amounts[a] >= 0
        /\ token_ledger.balances[a] >= 0 /\ token_ledger.staked_amounts[a] >= 0

\* C3: whenever apply_transaction returns False, balances, staked amounts,
\* total_supply and the transaction history are as they were before the call.
C3_ApplyAtomic ==
    [][(last'.op = "apply_transaction" /\ ~last'.ok) => ledger' = ledger]_vars

\* C3 witness: a call was rejected on a ledger that holds tokens and history.
C3_Witness ==
    /\ last.op = "apply_transaction" /\ ~last.ok
    /\ ledger.total_supply > 0
    /\ ledger.transaction_history["alice"] # <<>>

\* C4: whenever add_block returns False, the chain, the token ledger and the
\* pending pool are as they were before the call.
C4_AppendAtomic ==
    [][(last'.op = "add_block" /\ ~last'.ok)
         => UNCHANGED <<chain, token_ledger, pending_transactions>>]_vars

\* C4 witness: add_block was refused for a validator of the set that is not the
\* proposer elected from the previous block's hash, with transactions pending.
C4_Witness ==
    /\ last.op = "add_block" /\ ~last.ok
    /\ clock > Tip.timestamp
    /\ last.validator \in validators
    /\ last.validator \notin select_validator(Engine, Tip.hash)
    /\ pending_transactions # <<>>

\* C5: the chain is never empty, block 0 is the genesis block, and every later
\* block carries its position as index, the hash of its predecessor as
\* previous_hash and a timestamp strictly greater than its predecessor's.
C5_ChainWellFormed ==
    /\ Len(chain) >= 1
    /\ chain[1] = genesis_block
    /\ \A i \in 2..Len(chain) :
          /\ chain[i].index = i - 1
          /\ chain[i].previous_hash = chain[i - 1].hash
          /\ chain[i].timestamp > chain[i - 1].timestamp

\* C5 witness: on top of an appended block, the elected proposer offered a
\* block at the timestamp of the tip and was refused.
C5_Witness ==
    /\ Len(chain) >= 2
    /\ last.op = "add_block" /\ ~last.ok
    /\ clock = Tip.timestamp
    /\ last.validator \in select_validator(Engine, Tip.hash)

\* C6: the token ledger of the node (balances, stakes, total_supply) equals the
\* ledger obtained by replaying every transaction of the chain from empty.
C6_LedgerEqualsReplay ==
    LET R == replay(chain)
    IN  /\ token_ledger.balances = R.balances
        /\ token_ledger.staked_amounts = R.staked_amounts
        /\ token_ledger.total_supply = R.total_supply

\* C6 witness: two blocks were appended, one of them with two offered
\* transactions besides its reward.
C6_Witness ==
    /\ Len(chain) >= 3
    /\ \E i \in 2..Len(chain) : Len(chain[i].transactions) >= 3

\* C7: every token transaction of an appended block is accepted by the ledger
\* when the block's transactions are applied in order.  It is stated of the
\* blocks whose transactions are pairwise different, so that a violation does
\* not rest on one transaction offered twice.
C7_BlockTransactionsAccepted ==
    \A i \in 2..Len(chain) :
        pairwise_different(chain[i].transactions)
            => all_accepted(LedgerBefore(i), chain[i].transactions)

\* C8: no tx_id occurs more than once in the chain.
C8_TxIdUnique ==
    LET txs == SelectSeq(chain_transactions(chain), LAMBDA tx : "tx_id" \in DOMAIN tx)
    IN  \A i, j \in 1..Len(txs) : i # j => txs[i].tx_id # txs[j].tx_id

\* C9: every transaction in the pending pool or in a block whose sender is not
\* system carries a signature that verifies for its sender.
C9_SignatureRequired ==
    LET txs == pending_transactions \o chain_transactions(chain)
    IN  \A i \in 1..Len(txs) :
           (IsTokenTx(txs[i]) /\ txs[i].sender # "system") => verify_signature(txs[i])

\* C10: every non-genesis block holds at most one REWARD transaction, and if
\* present its recipient is the block's validator and its amount the scheduled
\* block reward for the block's index.
C10_RewardUnique ==
    \A i \in 2..Len(chain) :
        LET rewards == rewards_of(chain[i])
        IN  /\ Len(rewards) <= 1
            /\ Len(rewards) = 1 =>
                 /\ rewards[1].recipient = chain[i].validator
                 /\ <<rewards[1].amount, 0>> =
                      calculate_block_reward(LedgerBefore(i), chain[i].index)

\* C11: the total supply of the node's ledger equals the genesis emission plus
\* the scheduled rewards of the blocks 1..height of the chain, clamped at
\* TOKEN_MAX_SUPPLY.
C11_SupplySchedule ==
    token_ledger.total_supply =
        Min(TOKEN_MAX_SUPPLY, GENESIS_AMOUNT + scheduled_rewards(Len(chain) - 1))

\* C12: in every ledger state reached by apply_transaction, total_supply is at
\* most TOKEN_MAX_SUPPLY.
C12_SupplyCap == ledger.total_supply <= TOKEN_MAX_SUPPLY

\* C13: calculate_block_reward(h) is floor(BLOCK_REWARD_START / 2^(h div 210000))
\* while h div 210000 < 64 and 0 from then on, reduced to what is left below
\* TOKEN_MAX_SUPPLY (never below 0) when it would push total_supply past it; and
\* a block built when the reward is 0 is appended without a REWARD transaction.
C13_RewardSchedule ==
    /\ last.op = "calculate_block_reward" =>
          LET k == last.block_height \div BLOCK_REWARD_HALVING_BLOCKS
              remaining == TOKEN_MAX_SUPPLY - ledger.total_supply
          IN  IF k >= 64 THEN last.reward = <<0, 0>>
              ELSE IF quotient_exceeds(k, remaining)
                   THEN last.reward = <<IF remaining > 0 THEN remaining ELSE 0, 0>>
                   ELSE is_floor_quotient(last.reward, k)
    /\ calculate_block_reward(ledger, 1) = <<0, 0>> =>
          LET res == add_block(<<genesis_block>>, ledger, <<>>, <<>>, "alice", 1, TRUE)
          IN  /\ res.ok
              /\ Len(res.chain) = 2
              /\ rewards_of(res.chain[2]) = <<>>

\* C13 witness: the reward was asked for with less than the scheduled reward
\* left below the cap, and what is left was returned.
C13_Witness ==
    /\ last.op = "calculate_block_reward"
    /\ last.block_height < BLOCK_REWARD_HALVING_BLOCKS
    /\ TOKEN_MAX_SUPPLY - ledger.total_supply \in 1..(BLOCK_REWARD_START - 1)
    /\ last.reward = <<TOKEN_MAX_SUPPLY - ledger.total_supply, 0>>

\* C14: no STAKE transaction is accepted that leaves its sender with a stake
\* below MIN_STAKE_AMOUNT.
C14_StakeFloor ==
    [][\A a \in AllAddr :
          ledger'.staked_amounts[a] > ledger.staked_amounts[a]
              => ledger'.staked_amounts[a] >= MIN_STAKE_AMOUNT]_vars

\* C15: an accepted UNSTAKE of an address is at least STAKE_LOCK_TIME later
\* than the latest accepted STAKE of that address before it.
C15_StakeLock ==
    \A a \in AllAddr :
        LET h == ledger.transaction_history[a]
        IN  \A i, j \in 1..Len(h) :
               (/\ i < j
                /\ is_by(h[i], "stake", a)
                /\ is_by(h[j], "unstake", a)
                /\ \A m \in (i + 1)..(j - 1) : ~is_by(h[m], "stake", a))
               => ledger_tx(h[j]).timestamp - ledger_tx(h[i]).timestamp
                    >= STAKE_LOCK_TIME

\* C16: the validator set is the VALIDATOR_SET_SIZE addresses with the largest
\* stake among those staking at least MIN_STAKE_AMOUNT, equal stakes taken in
\* lexicographic order of the address.
C16_ValidatorSet == validators = canonical_validators(stakes)

\* C17: select_validator returns the first validator whose cumulative stake
\* exceeds the seed's integer modulo the total stake of the validator set; the
\* address returned is a member of the validator set.
C17_ProposerElection ==
    validators # {} =>
        \A seed \in ElectionSeeds :
            /\ select_validator(Engine, seed) \subseteq validators
            /\ select_validator(Engine, seed) = claimed_proposers(Engine, seed)

\* C18: an engine that holds the same stake of every address, registered in
\* another order, elects the same proposer from the same seed, and no election
\* has more than one outcome.
C18_ElectionDeterminism ==
    LET Q == [stakes |-> reversed(stakes),
              validators |-> update_validators(reversed(stakes))]
    IN  \A seed \in ElectionSeeds :
           /\ Cardinality(select_validator(Engine, seed)) <= 1
           /\ select_validator(Q, seed) = select_validator(Engine, seed)

\* C19 as claimed: in one state of the engine, two seeds elect the same proposer
\* if and only if they are the same seed.
C19_SameProposerIffSameSeed ==
    validators # {} =>
        \A seed1, seed2 \in ElectionSeeds :
            (select_validator(Engine, seed1) = select_validator(Engine, seed2))
                <=> (seed1 = seed2)

\* C19 as amended: in one state of the engine with validators, a seed elects
\* exactly one proposer, so that equal seeds elect the same proposer.
C19_SeedDeterminesProposer ==
    validators # {} =>
        \A seed \in ElectionSeeds : Cardinality(select_validator(Engine, seed)) = 1

\* C19 witness: two validators, and two seeds that elect different proposers.
C19_Witness ==
    /\ Cardinality(validators) = 2
    /\ \E seed1, seed2 \in ElectionSeeds :
          select_validator(Engine, seed1) # select_validator(Engine, seed2)

\* C20: while the validator set is empty, select_validator yields no address
\* and every add_block call returns False and leaves the chain at its length.
C20_EmptySetSuspends ==
    [][validators = {} =>
         /\ \A seed \in ElectionSeeds : select_validator(Engine, seed) = {}
         /\ last'.op = "add_block" => (~last'.ok /\ Len(chain') = Len(chain))]_vars

\* C20 witness: with no validator, add_block was called at a time later than
\* the tip's with transactions pending, and returned False.
C20_Witness ==
    /\ validators = {}
    /\ last.op = "add_block" /\ ~last.ok
    /\ clock > Tip.timestamp
    /\ pending_transactions # <<>>

----------------------------------------------------------------------------
(* The node, its storage and its synchronisation *)

Founder == "genesis_wallet"

\* C21: from genesis, once the founder's STAKE of 1000 tokens is processed the
\* founder is a validator (and so can propose block 1 with the TRANSFER to A).
C21_FounderBootstrap ==
    (phase = "running" /\ get_staked_amount(token_ledger, Founder) >= FOUNDER_STAKE)
        => Founder \in validators

\* C22: a node started on empty storage has a chain of exactly one block, of
\* height 0 and validator "genesis", holding a single GENESIS transaction; the
\* founder's balance and the total supply are the genesis amount and every
\* other balance and every stake is 0.
C22_FreshNodeGenesis ==
    (phase = "running" /\ last.op = "init" /\ db = EmptyStore) =>
        /\ Len(chain) = 1
        /\ chain[1].index = 0
        /\ chain[1].validator = "genesis"
        /\ Len(chain[1].transactions) = 1
        /\ chain[1].transactions[1].tx_type = "genesis"
        /\ get_balance(token_ledger, Founder) = GENESIS_AMOUNT
        /\ token_ledger.total_supply = GENESIS_AMOUNT
        /\ \A a \in AllAddr \ {Founder} : get_balance(token_ledger, a) = 0
        /\ \A a \in AllAddr : get_staked_amount(token_ledger, a) = 0
        /\ stakes = <<>>
        /\ validators = {}

\* A node started again, on the storage an earlier run left, after time passed.
C22_Witness ==
    phase = "running" /\ last.op = "init" /\ db = EmptyStore /\ chain[1].timestamp > 0

\* Block by block the same index, previous_hash, timestamp, transactions,
\* validator and hash.
same_blocks(c, d) ==
    /\ Len(c) = Len(d)
    /\ \A i \in 1..Len(c) :
          /\ c[i].index = d[i].index
          /\ c[i].previous_hash = d[i].previous_hash
          /\ c[i].timestamp = d[i].timestamp
          /\ c[i].transactions = d[i].transactions
          /\ c[i].validator = d[i].validator
          /\ c[i].hash = d[i].hash

\* The node has just called _save_state on its chain.
just_saved == "save" \in DOMAIN last /\ last.save # "none"

\* C23: save_state of a chain built by add_block followed by load_state
\* returns a chain equal to it, block by block.
C23_StorageRoundTrip ==
    (phase = "running" /\ just_saved) =>
        /\ load_state(conn, clock).found
        /\ same_blocks(load_state(conn, clock).chain, chain)

\* No save_state of the node gets as far as an INSERT: neither the connection
\* nor the committed file ever holds a block, and load_state finds nothing.
NoStoredBlock ==
    /\ conn.blocks = <<>> /\ db.blocks = <<>>
    /\ ~load_state(conn, clock).found /\ ~load_state(db, clock).found

\* The blocks table holds the blocks of c, row by row.
snapshot_of(view, c) ==
    /\ Len(view.blocks) = Len(c)
    /\ \A i \in 1..Len(c) :
          /\ view.blocks[i].hash = c[i].hash
          /\ view.blocks[i].block_index = c[i].index
          /\ view.blocks[i].previous_hash = c[i].previous_hash
          /\ view.blocks[i].timestamp = c[i].timestamp
          /\ view.blocks[i].transactions = c[i].transactions
          /\ view.blocks[i].validator = c[i].validator

\* C26: after a shutdown the listener is closed and the storage holds a
\* snapshot equal to the chain the node had in memory when it stopped.
C26_ShutdownPersistence ==
    (phase = "off" /\ last.op = "stop") =>
        /\ listener = "closed"
        /\ snapshot_of(db, chain)

\* What a pending transaction takes from its sender's balance.
spend(tx) == tx.amount + tx.fee

\* C27: a submission is admitted to the pool only if, together with any
\* transaction of the same sender already in the pool, its amount + fee stays
\* within the sender's ledger balance.
C27_PendingDebit ==
    (last.op \in {"add_transaction", "add_stake_transaction"} /\ last.ok) =>
        LET n == Len(pending_transactions)
            tx == pending_transactions[n]
        IN  \A i \in 1..(n - 1) :
               pending_transactions[i].sender = tx.sender =>
                   spend(pending_transactions[i]) + spend(tx)
                       <= get_balance(token_ledger, tx.sender)

\* The transaction has a tx_id and a transaction of the block has the same.
in_block(tx, block) ==
    /\ "tx_id" \in DOMAIN tx
    /\ \E k \in 1..Len(block.transactions) :
          /\ "tx_id" \in DOMAIN block.transactions[k]
          /\ block.transactions[k].tx_id = tx.tx_id

\* The positions of the pool whose transaction is not in the block.
kept(pool, block) == {i \in 1..Len(pool) : ~in_block(pool[i], block)}

sync_candidate(c, local, P) ==
    /\ Len(c) > Len(local)
    /\ c[1] = local[1]
    /\ is_chain_valid(c, P)

\* The step is a sync cycle.
sync_cycle(before, after) == after.op = "consensus" /\ after # before

\* C29: after a sync cycle in which a peer served a valid chain strictly
\* longer than the local one and with its genesis block, the local chain is
\* that peer's chain and the local ledger is a replay of it.
C29_LongerChainWins ==
    [][(/\ sync_cycle(last, last')
        /\ \E i \in 1..Len(last'.responses) :
              sync_candidate(last'.responses[i], chain, Engine))
       => /\ \E i \in 1..Len(last'.responses) :
                /\ sync_candidate(last'.responses[i], chain, Engine)
                /\ chain' = last'.responses[i]
          /\ token_ledger' = replay(chain')]_vars

\* C30: a sync cycle reports a replacement only of a chain that is strictly
\* longer, valid and of the local genesis block, changes the local chain only
\* to such a chain, and without one leaves it unchanged and reports none.
C30_SyncSafety ==
    [][sync_cycle(last, last') =>
          /\ last'.ok => sync_candidate(last'.longest_chain, chain, Engine)
          /\ chain' # chain =>
                /\ chain' = last'.longest_chain
                /\ sync_candidate(last'.longest_chain, chain, Engine)
          /\ (\A i \in 1..Len(last'.responses) :
                 ~sync_candidate(last'.responses[i], chain, Engine))
                => (chain' = chain /\ ~last'.ok)]_vars

----------------------------------------------------------------------------
(* Chain validity, block production and the history index *)

\* C39: after any successful add_block calls interleaved with stake operations
\* on the consensus engine, is_chain_valid() returns True.
C39_ValidityStable == is_chain_valid(chain, Engine)

\* C38: a successful apply_transaction appends the tx_id exactly once to the
\* history of the sender and of the recipient, also when they are the same
\* address, and to no other; a failed one changes no history; the reserved
\* address system has no history.
C38_HistoryIndex ==
    [][applied' = applied + 1 =>
          LET tx == last'.tx
              h == ledger.transaction_history
          IN  /\ ledger'.transaction_history["system"] = <<>>
              /\ \A a \in AllAddr \ {"system"} :
                    ledger'.transaction_history[a] =
                        IF last'.ok /\ a \in {tx.sender, tx.recipient}
                        THEN Append(h[a], tx.tx_id) ELSE h[a]]_vars

\* C40: the main loop appends a block only when at least one transaction of
\* the pool is in it; when every pending transaction fails validation no
\* block is appended and no reward is minted.
C40_NoRewardOnlyBlock ==
    [][(last'.op = "start" /\ Len(chain') = Len(chain) + 1) =>
          \E i \in 1..Len(pending_transactions) :
             \E k \in 1..Len(chain'[Len(chain')].transactions) :
                chain'[Len(chain')].transactions[k] = pending_transactions[i]]_vars

----------------------------------------------------------------------------
(* Gossip and messages *)

\* The block extends the chain c validly: it links to the tip, carries the
\* next index and passes the validation of the chain with it appended.
extends_tip(block, c, P) ==
    /\ block.previous_hash = c[Len(c)].hash
    /\ block.index = Len(c)
    /\ is_chain_valid(Append(c, block), P)

\* C31: a block delivered to POST /block that validly extends the local tip
\* makes the local chain grow by that block; one that does not connect to the
\* tip leaves the chain and the ledger unchanged.
C31_GossipedBlock ==
    [][(last'.op = "post_block" /\ last' # last) =>
          IF extends_tip(last'.block, chain, Engine)
          THEN chain' = Append(chain, last'.block)
          ELSE chain' = chain /\ token_ledger' = token_ledger]_vars

\* The step is a broadcast of a block or of a transaction.
is_broadcast(call) == call.op \in {"broadcast_block", "broadcast_transaction"}

\* C32: a broadcast attempts delivery to every registered peer whatever the
\* peers do, returns the number of peers that answered 200, and removes no
\* peer from the registry.
C32_GossipIsolation ==
    [][(is_broadcast(last') /\ last' # last) =>
          /\ last'.attempted = nodes
          /\ last'.successful_nodes
                = Cardinality({p \in nodes : last'.outcome[p] = 200})
          /\ nodes' = nodes]_vars

\* A broadcast to two peers of which one failed with an exception or an error
\* status and the other answered 200.
C32_Witness ==
    /\ is_broadcast(last)
    /\ nodes = Peers
    /\ \E p \in nodes : last.outcome[p] # 200
    /\ last.successful_nodes = 1

\* The body has no type or no data.
malformed(body) ==
    ~is_object(body) \/ "type" \notin DOMAIN body \/ "data" \notin DOMAIN body

\* No handler is registered for the type.
unregistered(handlers, message_type) ==
    message_type \notin MessageTypes \/ handlers[message_type] = "none"

\* C36: POST /message answers 400 and invokes no handler when the body lacks
\* type or data or when no handler is registered for the type; it answers 500
\* when the registered handler raises; otherwise it answers 200 with the
\* handler's result; the handler registered last for the type is the one
\* invoked, once.
C36_TypedDispatch ==
    [][(last'.op = "post_message" /\ last' # last) =>
          LET body == last'.body
          IN  IF malformed(body) \/ unregistered(message_handlers, body.type)
              THEN last'.status = 400 /\ last'.invoked = <<>>
              ELSE LET handler == message_handlers[body.type]
                       res == run_handler(handler, body.data, node_info, clock)
                   IN  /\ last'.invoked = <<handler>>
                       /\ IF res.raised THEN last'.status = 500
                          ELSE last'.status = 200 /\ last'.result = res.result]_vars

\* C37: a message a peer sends with send_message(node, type, data) to a node
\* that has a handler registered for the type is dispatched to that handler
\* with data; the ping of register_node makes the node record the sender's
\* node_id with its last_seen.
C37_MessageInterop ==
    [][(/\ last'.op = "send_message" /\ last' # last
        /\ ~unregistered(message_handlers, last'.message_type))
       => /\ last'.invoked = <<message_handlers[last'.message_type]>>
          /\ last'.argument = last'.data
          /\ (/\ message_handlers[last'.message_type] = "handle_ping"
               /\ "node_id" \in DOMAIN last'.data)
                 => node_info'[last'.data.node_id] = clock]_vars

\* C33 (reader consistency).  Whenever a handler thread serves GET /blocks,
\* every block it finds in the chain has had its transactions applied: the
\* token ledger is the replay of the chain it reads.
C33_ReaderConsistency ==
    [][GetBlocks => token_ledger = replay(chain)]_vars

\* The number of places of the list txs that hold x.
occurrences(txs, x) == Cardinality({i \in 1..Len(txs) : txs[i] = x})

\* C34 (no lost pending transaction).  When the add_block of the main loop
\* returns, every transaction that was in the pool, the ones POST /transaction
\* appended during the call included, is in the appended block or still in
\* the pool, as many times as it was there.
C34_NoLostPending ==
    [][PurgeAssign("start") =>
          \A i \in 1..Len(pending_transactions) :
              LET x == pending_transactions[i]
              IN  occurrences(pending_transactions, x)
                    <= occurrences(pending_transactions', x)
                       + occurrences(calls["start"].block.transactions, x)]_vars

\* C35 (exclusive append).  No two blocks of the chain have the same index or
\* the same previous_hash, whatever add_block calls overlapped.
C35_ExclusiveAppend ==
    \A i, j \in 1..Len(chain) :
        i # j => /\ chain[i].index # chain[j].index
                 /\ chain[i].previous_hash # chain[j].previous_hash

====
